---- MODULE Spec2Model ----
(***************************************************************************)
(* Model of BookService (src/src/book/services/book.service.ts): the two   *)
(* search entry points getAllBooks (raw SQL, "fast path") and              *)
(* getAllSlowBooks (query builder with joins, "join path") over the        *)
(* tables book, category and book_categories.                              *)
(*                                                                         *)
(* Text is a sequence of one-character strings.  A JavaScript number that  *)
(* may be non-finite is a record [kind, n].                                *)
(***************************************************************************)
EXTENDS Integers, Sequences, FiniteSets, TLC

VARIABLES
  book,             \* table book: id -> row
  book_categories,  \* table book_categories: set of <<book_id, category_id>>
  req,              \* arguments of the call in progress (or of the last call)
  pc,               \* position of the call: idle, pageQuery, countQuery,
                    \* getManyAndCount, returned, failed
  resultBooks,      \* getAllBooks: rows the page query resolved with
  result,           \* the PagedResult the call returned, or NoResult
  error,            \* message of the Error the call ended with, or NoError
  queryLog,         \* queries handed to the store by the call, in order
  pages,            \* client history: page number -> ids, for a run of
                    \* consecutive pages 1, 2, ... of one search
  prev              \* client history: the result of the same search on the
                    \* other path, or NoResult

vars == <<book, book_categories, req, pc, resultBooks, result, error,
          queryLog, pages, prev>>

----------------------------------------------------------------------------
(* Bounds of the model *)

NumBooks == 3
MaxLen   == 1
MaxPage  == 3
MaxLimit == 2

----------------------------------------------------------------------------
(* Values *)

Undefined == "<undefined>"
NULL      == "<null>"
NoResult  == [kind |-> "none"]
NoPages   == <<>>
NoError   == "<none>"

\* A NULL text column: no real string holds this element.
NullText == <<NULL>>

\* the category of a joined row whose book has no category (LEFT JOIN)
NoCategory == 0

Books      == 1..NumBooks
Categories == {1, 2}

\* table category: id -> name
category == [c \in Categories |-> IF c = 1 THEN <<"a">> ELSE <<"b">>]

FilterChars == {"a", " "}
BookNames   == {<<"a">>, <<"b">>}

RECURSIVE StringsUpTo(_)
StringsUpTo(n) ==
  IF n = 0 THEN {<<>>}
  ELSE LET shorter == StringsUpTo(n - 1)
       IN shorter \cup {Append(s, ch) : s \in shorter, ch \in FilterChars}

\* the caller always passes a filter string, possibly empty
FilterInputs == StringsUpTo(MaxLen)
SortInputs   == {Undefined, "name", "title"}
OrderInputs  == {Undefined, "desc", "sideways"}
Paths        == {"fast", "slow"}

----------------------------------------------------------------------------
(* JavaScript helpers *)

\* String.prototype.toUpperCase on the order strings
toUpperCase(s) ==
  CASE s = "desc" -> "DESC"
    [] s = "asc"  -> "ASC"
    [] s = "sideways" -> "SIDEWAYS"
    [] OTHER -> s

\* truthiness of an optional string argument
Truthy(s) == s # Undefined /\ s # ""

\* truthiness of the filter string
TruthyFilter(f) == f # <<>>

Finite(n)   == [kind |-> "finite", n |-> n]
Infinity    == [kind |-> "Infinity", n |-> 0]
NaN         == [kind |-> "NaN", n |-> 0]

\* Math.ceil(a / b) for integers a >= 0, b >= 0
MathCeilDiv(a, b) ==
  IF b = 0 THEN (IF a = 0 THEN NaN ELSE Infinity)
  ELSE Finite((a + b - 1) \div b)

\* page < totalPages
NumLess(p, t) ==
  CASE t.kind = "finite"   -> p < t.n
    [] t.kind = "Infinity" -> TRUE
    [] OTHER               -> FALSE

----------------------------------------------------------------------------
(* Text search *)

\* the words of a text: its maximal runs of non-space characters, in order
RECURSIVE SplitWords(_, _, _)
SplitWords(s, i, cur) ==
  IF i > Len(s) THEN (IF cur = <<>> THEN <<>> ELSE <<cur>>)
  ELSE IF s[i] = " "
       THEN (IF cur = <<>> THEN <<>> ELSE <<cur>>) \o SplitWords(s, i + 1, <<>>)
       ELSE SplitWords(s, i + 1, Append(cur, s[i]))

Words(s) == SplitWords(s, 1, <<>>)

\* tsquery(filter) of src/utils/filter.util: the tokens of the raw string,
\* joined by AND; an empty or blank string gives the empty term
tsquery(filter) == Words(filter)

coalesce(v, d) == IF v = NullText THEN d ELSE v

\* to_tsvector('english', text): the set of words of the text
to_tsvector(text) == {Words(text)[i] : i \in 1..Len(Words(text))}

\* tsvector @@ to_tsquery('english', $1); a query without lexemes matches
\* no document
TsMatch(vec, tsq) == tsq # <<>> /\ \A i \in 1..Len(tsq) : tsq[i] \in vec

\* coalesce(name,'') || ' ' || coalesce(author,'') || ' ' || coalesce(publisher,'')
BookText(b) ==
  coalesce(b.name, <<>>) \o <<" ">> \o coalesce(b.author, <<>>) \o <<" ">>
    \o coalesce(b.publisher, <<>>)

BookMatches(id, tsq) == TsMatch(to_tsvector(BookText(book[id])), tsq)

CategoryMatches(c, tsq) == TsMatch(to_tsvector(category[c]), tsq)

----------------------------------------------------------------------------
(* Relational helpers *)

\* rows of book_categories bc JOIN category c ON c.id = bc.category_id
\* WHERE bc.book_id = id, as the set of category ids
JoinedCategories(id) ==
  {c \in Categories : <<id, c>> \in book_categories}

RECURSIVE SumOver(_, _)
SumOver(f, S) ==
  IF S = {} THEN 0
  ELSE LET x == CHOOSE y \in S : TRUE IN f[x] + SumOver(f, S \ {x})

\* a bag of book ids: id -> number of rows
BagIds(bag)     == {id \in DOMAIN bag : bag[id] > 0}

\* UNION ALL: rows of both operands, duplicates kept
UnionAllMutant(b1, b2) == [id \in Books |-> b1[id] + b2[id]]

\* UNION: rows of both operands, duplicates removed
Union(b1, b2) ==
  [id \in Books |-> IF b1[id] + b2[id] > 0 THEN 1 ELSE 0]

\* COUNT( * ) of a bag
Count(bag) == SumOver(bag, DOMAIN bag)

CharRank(ch) == CASE ch = " " -> 0 [] ch = "a" -> 1 [] ch = "b" -> 2 [] OTHER -> 3

RECURSIVE TextLeq(_, _)
TextLeq(s, t) ==
  IF s = <<>> THEN TRUE
  ELSE IF t = <<>> THEN FALSE
  ELSE IF CharRank(Head(s)) # CharRank(Head(t))
       THEN CharRank(Head(s)) < CharRank(Head(t))
       ELSE TextLeq(Tail(s), Tail(t))

\* x sorts no later than y in ORDER BY b.<field> ASC
ColumnLeq(field, x, y) ==
  IF field = "name" THEN TextLeq(book[x].name, book[y].name)
  ELSE book[x].updated_at <= book[y].updated_at

\* x may precede y under ORDER BY b.<field> <dir>: the sort column alone
\* decides, so rows that agree on it may come in any order, and in another
\* order in the next query
OrderBy(field, dir, x, y) ==
  IF dir = "DESC" THEN ColumnLeq(field, y, x) ELSE ColumnLeq(field, x, y)

\* the sequences a store may return for the rows ids under the ORDER BY:
\* every arrangement in which each row may precede all the rows after it
RECURSIVE Orderings(_, _, _)
Orderings(ids, field, dir) ==
  IF ids = {} THEN {<<>>}
  ELSE UNION {{<<x>> \o rest : rest \in Orderings(ids \ {x}, field, dir)} :
                x \in {m \in ids : \A y \in ids : OrderBy(field, dir, m, y)}}

\* LIMIT limit OFFSET offset of a sequence (both non-negative)
LimitOffset(s, limit, offset) ==
  SubSeq(s, offset + 1, IF offset + limit < Len(s) THEN offset + limit ELSE Len(s))

----------------------------------------------------------------------------
(* Sort specification *)

allowedSortFields ==
  {"name", "author", "publisher", "publication_date", "page_count",
   "created_at", "updated_at"}

allowedSortOrders == {"ASC", "DESC"}

InvalidSortField(sort) == Truthy(sort) /\ sort \notin allowedSortFields

\* getAllBooks only
InvalidSortOrder(order) ==
  Truthy(order) /\ toUpperCase(order) \notin allowedSortOrders

SortField(sort) ==
  IF Truthy(sort) /\ sort \in allowedSortFields THEN sort ELSE "updated_at"

\* the direction compared as it was typed
SortOrderMutant(order) == IF order = "DESC" THEN "DESC" ELSE "ASC"

SortOrder(order) ==
  IF order # Undefined /\ toUpperCase(order) = "DESC" THEN "DESC" ELSE "ASC"

----------------------------------------------------------------------------
(* getAllBooks: the four raw queries *)

\* filter !== ''
UsesFilter(filter) == filter # <<>>

Offset(page, limit) == (page - 1) * limit

\* the store refuses a negative LIMIT or OFFSET
BadLimitOffset(limit, offset) == limit < 0 \/ offset < 0

\* the aggregate restricted to the categories the term matches
bookCategoriesAggMutant(id) ==
  {c \in JoinedCategories(id) : CategoryMatches(c, tsquery(req.filter))}

\* jsonb_agg(...) over the categories of book id, as the set of their ids
\* (the NULL of a book without categories is the empty set)
bookCategoriesAgg(id) == JoinedCategories(id)

RawRow(id) == [id |-> id, bookCategories |-> bookCategoriesAgg(id)]

\* FROM book b WHERE to_tsvector(...) @@ to_tsquery('english', $1)
OwnTextBranch(tsq) ==
  [id \in Books |-> IF BookMatches(id, tsq) THEN 1 ELSE 0]

\* FROM book b WHERE EXISTS (SELECT 1 FROM book_categories bc JOIN category c
\* ... WHERE bc.book_id = b.id AND to_tsvector('english', c.name) @@ ...)
ExistsBranch(tsq) ==
  [id \in Books |->
     IF \E c \in JoinedCategories(id) : CategoryMatches(c, tsq) THEN 1 ELSE 0]

\* SELECT b.id FROM book b JOIN book_categories bc ... JOIN category c ...
\* WHERE to_tsvector('english', c.name) @@ ...: one row per matching link
JoinBranch(tsq) ==
  [id \in Books |->
     Cardinality({c \in JoinedCategories(id) : CategoryMatches(c, tsq)})]

\* the row sequences rawQueryUsingFilter may resolve with
rawQueryUsingFilter(tsq, field, dir, limit, offset) ==
  {[i \in DOMAIN s |-> RawRow(s[i])] :
     s \in {LimitOffset(o, limit, offset) :
              o \in Orderings(BagIds(Union(OwnTextBranch(tsq), ExistsBranch(tsq))),
                              field, dir)}}

\* the row sequences rawQueryWithoutFilter may resolve with
rawQueryWithoutFilter(field, dir, limit, offset) ==
  {[i \in DOMAIN s |-> RawRow(s[i])] :
     s \in {LimitOffset(o, limit, offset) : o \in Orderings(Books, field, dir)}}

rawCountQueryUsingFilter(tsq) ==
  Count(Union(OwnTextBranch(tsq), JoinBranch(tsq)))

rawCountQueryWithoutFilter == Count([id \in Books |-> 1])

\* new getAllBooksDTO(book) of src/dto/book/get.all.book.dto: the public item
\* with its list of categories
getAllBooksDTO(row) ==
  [id |-> row.id,
   categories |-> row.bookCategories]

PagedResult(data, total, page, totalPages) ==
  [kind |-> "paged", data |-> data, total |-> total, page |-> page,
   totalPages |-> totalPages,
   hasNextPage |-> NumLess(page, totalPages),
   hasPreviousPage |-> page > 1]

----------------------------------------------------------------------------
(* getAllSlowBooks: the query builder *)

SlowPageSize == 10

SlowOffset(page) == (page - 1) * SlowPageSize

\* rows of b LEFT JOIN b.bookCategories bc LEFT JOIN bc.category category
LeftJoinRows ==
  {<<id, c>> : id \in Books, c \in Categories \cup {NoCategory}} \cap
  (book_categories \cup
     {<<id, NoCategory>> : id \in {i \in Books : JoinedCategories(i) = {}}})

\* the Brackets condition, added only if (filter)
SlowWhere(row, filter) ==
  \/ ~TruthyFilter(filter)
  \/ BookMatches(row[1], tsquery(filter))
  \/ (row[2] # NoCategory /\ CategoryMatches(row[2], tsquery(filter)))

SlowRows(filter) == {row \in LeftJoinRows : SlowWhere(row, filter)}

\* the entity of book id built from the joined rows the condition keeps
SlowEntity(id, filter) ==
  [id |-> id,
   bookCategories |->
     {row[2] : row \in {r \in SlowRows(filter) : r[1] = id /\ r[2] # NoCategory}}]

\* the [books, total] pairs getManyAndCount may resolve with
getManyAndCount(filter, field, dir, page) ==
  LET ids == {row[1] : row \in SlowRows(filter)}
  IN {<<[i \in DOMAIN s |-> SlowEntity(s[i], filter)], Cardinality(ids)>> :
        s \in {LimitOffset(o, SlowPageSize, SlowOffset(page)) :
                 o \in Orderings(ids, field, dir)}}

----------------------------------------------------------------------------
(* The state machine *)

\* The books a store is drawn from, by name and categories: for the term "a"
\* a book matching by its own text and by a category, one matching by its own
\* text only (and holding a category), one matching by a category only (and
\* holding another category too), and one matching neither, without category.
BookKinds ==
  << [name |-> <<"a">>, cats |-> {1}],
     [name |-> <<"a">>, cats |-> {2}],
     [name |-> <<"b">>, cats |-> {1, 2}],
     [name |-> <<"b">>, cats |-> {}] >>

\* The code reads a book id only to compare it with another, so the books come
\* in the order of BookKinds; they were written two at a time (updated_at).
Init ==
  /\ \E k \in [Books -> DOMAIN BookKinds] :
       /\ \A i, j \in Books : i < j => k[i] <= k[j]
       /\ book = [id \in Books |->
                   [name |-> BookKinds[k[id]].name, author |-> NullText,
                    publisher |-> NullText, updated_at |-> (id + 1) \div 2]]
       /\ book_categories =
            {<<id, c>> : id \in Books, c \in Categories} \cap
            UNION {{id} \X BookKinds[k[id]].cats : id \in Books}
  /\ req = [path |-> "fast", limit |-> 1, page |-> 1, filter |-> <<>>,
            sort |-> Undefined, order |-> Undefined]
  /\ pc = "idle"
  /\ resultBooks = <<>>
  /\ result = NoResult
  /\ error = NoError
  /\ queryLog = <<>>
  /\ pages = NoPages
  /\ prev = NoResult

\* the query the call hands to the store first
FirstQuery(r) ==
  IF r.path = "slow"
  THEN [sql |-> "getManyAndCount", status |-> "sent",
        params |-> IF TruthyFilter(r.filter) THEN <<tsquery(r.filter)>> ELSE <<>>]
  ELSE IF UsesFilter(r.filter)
  THEN [sql |-> "rawQueryUsingFilter", status |-> "sent",
        params |-> <<tsquery(r.filter)>>]
  ELSE [sql |-> "rawQueryWithoutFilter", status |-> "sent", params |-> <<>>]

CountQuery(r) ==
  IF UsesFilter(r.filter)
  THEN [sql |-> "rawCountQueryUsingFilter", status |-> "sent",
        params |-> <<tsquery(r.filter)>>]
  ELSE [sql |-> "rawCountQueryWithoutFilter", status |-> "sent", params |-> <<>>]

\* the log once the store answered the query sent last
Answered(status) ==
  [queryLog EXCEPT ![Len(queryLog)].status = status]

\* getAllBooks / getAllSlowBooks from the call to the first await
Enter(r) ==
  /\ req' = r
  /\ resultBooks' = <<>>
  /\ result' = NoResult
  /\ IF InvalidSortField(r.sort)
     THEN /\ pc' = "failed"
          /\ error' = "Invalid sort field"
          /\ queryLog' = <<>>
     ELSE IF r.path = "fast" /\ InvalidSortOrder(r.order)
     THEN /\ pc' = "failed"
          /\ error' = "Invalid sort order"
          /\ queryLog' = <<>>
     ELSE /\ pc' = IF r.path = "fast" THEN "pageQuery" ELSE "getManyAndCount"
          /\ error' = NoError
          /\ queryLog' = <<FirstQuery(r)>>
  /\ UNCHANGED <<book, book_categories>>

\* a caller starts a search; calls share no state, so one run follows one
\* caller from its first call on
Call ==
  /\ pc = "idle"
  /\ \E path \in Paths, limit \in 0..MaxLimit, page \in 0..MaxPage,
        filter \in FilterInputs, sort \in SortInputs, order \in OrderInputs :
       Enter([path |-> path, limit |-> limit, page |-> page, filter |-> filter,
              sort |-> sort, order |-> order])
  /\ pages' = NoPages
  /\ prev' = NoResult

\* the caller asks for the next page of the search it just got a page of
CallNextPage ==
  /\ pc = "returned"
  /\ prev = NoResult
  /\ req.page \in DOMAIN pages
  /\ req.page < MaxPage
  /\ Enter([req EXCEPT !.page = req.page + 1])
  /\ UNCHANGED <<pages, prev>>

\* the caller repeats on the join path the search the fast path just answered
CallOtherPath ==
  /\ pc = "returned"
  /\ prev = NoResult
  /\ req.path = "fast"
  /\ Enter([req EXCEPT !.path = "slow"])
  /\ pages' = NoPages
  /\ prev' = result

\* the run of pages the caller holds once this page arrived
PagesWith(page, data) ==
  IF page = 1 \/ (page - 1) \in DOMAIN pages
  THEN [p \in (DOMAIN pages) \cup {page} |->
          IF p = page THEN {data[i].id : i \in DOMAIN data} ELSE pages[p]]
  ELSE pages

\* await this.bookRepository.query(page query) resolves; the count query is sent
PageQueryResolve ==
  /\ pc = "pageQuery"
  /\ ~BadLimitOffset(req.limit, Offset(req.page, req.limit))
  /\ resultBooks' \in
       IF UsesFilter(req.filter)
       THEN rawQueryUsingFilter(tsquery(req.filter), SortField(req.sort),
              SortOrder(req.order), req.limit, Offset(req.page, req.limit))
       ELSE rawQueryWithoutFilter(SortField(req.sort), SortOrder(req.order),
              req.limit, Offset(req.page, req.limit))
  /\ queryLog' = Append(Answered("resolved"), CountQuery(req))
  /\ pc' = "countQuery"
  /\ UNCHANGED <<book, book_categories, req, result, error, pages, prev>>

\* the rejection caught, and the rows at hand returned with a total of 0
RejectMutant ==
  /\ pc' = "returned"
  /\ result' = PagedResult([i \in DOMAIN resultBooks |->
                              getAllBooksDTO(resultBooks[i])],
                           0, req.page, Finite(0))
  /\ queryLog' = Answered("rejected")
  /\ UNCHANGED <<book, book_categories, req, resultBooks, error, pages, prev>>

\* a rejected await ends the call with the store's error
Reject ==
  /\ pc' = "failed"
  /\ error' = "QueryFailedError"
  /\ queryLog' = Answered("rejected")
  /\ UNCHANGED <<book, book_categories, req, resultBooks, result, pages, prev>>

PageQueryReject ==
  /\ pc = "pageQuery"
  /\ Reject

\* the count query resolves; the call maps the rows and returns
CountQueryResolve ==
  /\ pc = "countQuery"
  /\ LET total == IF UsesFilter(req.filter)
                  THEN rawCountQueryUsingFilter(tsquery(req.filter))
                  ELSE rawCountQueryWithoutFilter
         data  == [i \in DOMAIN resultBooks |-> getAllBooksDTO(resultBooks[i])]
     IN /\ result' = PagedResult(data, total, req.page,
                                 MathCeilDiv(total, req.limit))
        /\ pages' = PagesWith(req.page, data)
  /\ pc' = "returned"
  /\ queryLog' = Answered("resolved")
  /\ UNCHANGED <<book, book_categories, req, resultBooks, error, prev>>

CountQueryReject ==
  /\ pc = "countQuery"
  /\ Reject

\* await qb.getManyAndCount() resolves; the call maps the entities and returns
GetManyAndCountResolve ==
  /\ pc = "getManyAndCount"
  /\ ~BadLimitOffset(SlowPageSize, SlowOffset(req.page))
  /\ \E pair \in getManyAndCount(req.filter, SortField(req.sort),
                                 SortOrder(req.order), req.page) :
       LET data == [i \in DOMAIN pair[1] |-> getAllBooksDTO(pair[1][i])]
       IN /\ result' = PagedResult(data, pair[2], req.page,
                                   MathCeilDiv(pair[2], SlowPageSize))
          /\ pages' = PagesWith(req.page, data)
  /\ pc' = "returned"
  /\ queryLog' = Answered("resolved")
  /\ UNCHANGED <<book, book_categories, req, resultBooks, error, prev>>

GetManyAndCountReject ==
  /\ pc = "getManyAndCount"
  /\ Reject

Next ==
  \/ Call
  \/ CallNextPage
  \/ CallOtherPath
  \/ PageQueryResolve
  \/ PageQueryReject
  \/ CountQueryResolve
  \/ CountQueryReject
  \/ GetManyAndCountResolve
  \/ GetManyAndCountReject

Spec == Init /\ [][Next]_vars

----------------------------------------------------------------------------
(* Vocabulary of the properties *)

Returned == pc = "returned"
Ids(data) == {data[i].id : i \in DOMAIN data}

\* the filter has no character other than a space
Blank(filter) == \A i \in DOMAIN filter : filter[i] = " "

\* the books the search predicate selects for the term of the filter
Matching(filter) ==
  {id \in Books :
     \/ BookMatches(id, tsquery(filter))
     \/ \E c \in Categories :
          <<id, c>> \in book_categories /\ CategoryMatches(c, tsquery(filter))}

OwnMatch(id, filter) == BookMatches(id, tsquery(filter))
TagMatch(id, filter) ==
  \E c \in Categories :
    <<id, c>> \in book_categories /\ CategoryMatches(c, tsquery(filter))

Linked(id) == {c \in Categories : <<id, c>> \in book_categories}

Min(a, b) == IF a < b THEN a ELSE b

\* n = ceil(total / size) for size > 0
IsCeil(n, total, size) ==
  n.kind = "finite" /\ n.n * size >= total /\ (n.n - 1) * size < total

----------------------------------------------------------------------------
(* C1: every PagedResult of a search called with page >= 1 and limit > 0 has
   totalPages = ceil(total / limit) for the limit the caller passed,
   hasNextPage exactly when page < totalPages and hasPreviousPage exactly
   when page > 1.  getAllSlowBooks divides by 10 whatever the limit. *)
C1_PageArithmetic ==
  (Returned /\ req.page >= 1 /\ req.limit > 0) =>
     /\ IsCeil(result.totalPages, result.total, req.limit)
     /\ result.hasNextPage = (req.page < result.totalPages.n)
     /\ result.hasPreviousPage = (req.page > 1)

(* C2: for the same store and the same inputs (page >= 1, limit > 0) the fast
   path and the join path return the same set of ids, the same categories for each id and the
   same total.  The join path takes 10 rows whatever the limit and keeps
   only the categories of the joined rows its condition keeps. *)
C2_PathsAgree ==
  (Returned /\ prev # NoResult /\ req.page >= 1 /\ req.limit > 0) =>
     /\ Ids(result.data) = Ids(prev.data)
     /\ \A i \in DOMAIN result.data : \A j \in DOMAIN prev.data :
          result.data[i].id = prev.data[j].id =>
            result.data[i].categories = prev.data[j].categories
     /\ result.total = prev.total

----------------------------------------------------------------------------
(* C3 *)

SortRejected  == pc = "failed" /\ error = "Invalid sort field" /\ queryLog = <<>>
OrderRejected == pc = "failed" /\ error = "Invalid sort order" /\ queryLog = <<>>

UnknownField == req.sort \notin {Undefined, ""} /\ req.sort \notin allowedSortFields
UnknownOrder ==
  req.order \notin {Undefined, "", "asc", "ASC", "desc", "DESC"}

\* the data of the result is in the order of the column, in the direction
DataSorted(field, dir) ==
  \A i, j \in DOMAIN result.data :
    i < j => IF dir = "DESC"
             THEN ColumnLeq(field, result.data[j].id, result.data[i].id)
             ELSE ColumnLeq(field, result.data[i].id, result.data[j].id)

SortedAsAsked ==
  Returned =>
    DataSorted(IF req.sort = Undefined THEN "updated_at" ELSE req.sort,
               IF req.order \in {"desc", "DESC"} THEN "DESC" ELSE "ASC")

(* C3 as stated: a sort field outside the allow-list is rejected and no query
   is sent; a direction that is neither ascending nor descending is not
   rejected and sorts ascending; without field or direction the sort is
   updated_at ascending. *)
C3_OrderNeverRejected ==
  pc # "idle" =>
     /\ UnknownField => SortRejected
     /\ UnknownOrder => error # "Invalid sort order"
     /\ SortedAsAsked

(* C3 amended: as stated, except that getAllBooks rejects a direction that is
   neither ascending nor descending with 'Invalid sort order' and sends no
   query; only getAllSlowBooks sorts ascending then. *)
C3_SortValidation ==
  pc # "idle" =>
     /\ UnknownField => SortRejected
     /\ (~UnknownField /\ UnknownOrder /\ req.path = "fast") => OrderRejected
     /\ (~UnknownField /\ UnknownOrder /\ req.path = "slow") =>
           error # "Invalid sort order"
     /\ SortedAsAsked

C3_Witness ==
  /\ req.path = "fast" /\ req.sort = "name" /\ req.order = "sideways"
  /\ OrderRejected

----------------------------------------------------------------------------
(* C4: a filtered search of the fast path returns only books whose own text
   matches the term or that are linked to a category whose name matches it,
   none twice; total is the number of such books; and a first page that
   holds total rows returns exactly these books. *)
C4_FilteredSearchExact ==
  (Returned /\ req.path = "fast" /\ UsesFilter(req.filter)) =>
     /\ result.total = Cardinality(Matching(req.filter))
     /\ Ids(result.data) \subseteq Matching(req.filter)
     /\ Cardinality(Ids(result.data)) = Len(result.data)
     /\ (req.page = 1 /\ req.limit >= result.total) =>
           Ids(result.data) = Matching(req.filter)

\* A matches by its name, B only through a category, C not at all
C4_Witness ==
  /\ Returned /\ req.path = "fast" /\ UsesFilter(req.filter)
  /\ result.total = 2
  /\ \E A, B, C \in Books :
       /\ OwnMatch(A, req.filter)
       /\ ~OwnMatch(B, req.filter) /\ TagMatch(B, req.filter)
       /\ ~OwnMatch(C, req.filter) /\ ~TagMatch(C, req.filter)
       /\ Ids(result.data) = {A, B}

(* C5: every item of a result of the fast path carries exactly the
   categories linked to it in the store, whichever branch matched it. *)
C5_FullTagList ==
  (Returned /\ req.path = "fast") =>
     \A i \in DOMAIN result.data :
       result.data[i].categories = Linked(result.data[i].id)

\* one item matched by its text only, one matched through one of its two
\* categories only
C5_Witness ==
  /\ Returned /\ req.path = "fast" /\ UsesFilter(req.filter)
  /\ \E i, j \in DOMAIN result.data :
       /\ OwnMatch(result.data[i].id, req.filter)
       /\ ~TagMatch(result.data[i].id, req.filter)
       /\ result.data[i].categories # {}
       /\ ~OwnMatch(result.data[j].id, req.filter)
       /\ \E c \in result.data[j].categories :
            ~CategoryMatches(c, tsquery(req.filter))

----------------------------------------------------------------------------
(* C6: when the pages 1, 2, ... of the fast path were requested with one
   filter and page size until a page came back empty, the total of the count
   query is the number of distinct items of these pages.  Fails with C7:
   rows that agree on the sort column may change places between two page
   queries. *)
C6_CountEqualsPagedItems ==
  (/\ Returned /\ req.path = "fast" /\ req.limit > 0
   /\ req.page \in DOMAIN pages /\ result.data = <<>>) =>
     Cardinality(UNION {pages[p] : p \in DOMAIN pages}) = result.total

(* C7: page 1 and page 2 of the fast path, for one filter and page size, are
   disjoint and together hold min(total, 2 * pageSize) items, also when
   items agree on the sort column.  The page query orders by the sort column
   alone. *)
C7_PagesDisjoint ==
  (/\ Returned /\ req.path = "fast" /\ req.limit > 0
   /\ req.page = 2 /\ 2 \in DOMAIN pages) =>
     /\ pages[1] \cap pages[2] = {}
     /\ Cardinality(pages[1] \cup pages[2]) = Min(result.total, 2 * req.limit)

(* C8: a search of the fast path whose term is empty or blank sends
   the unfiltered page and count queries, with no term among their
   parameters; the filtered queries are sent only for a term with a
   character other than a space.  The code tests filter !== ''. *)
C8_BlankTermUnfiltered ==
  (pc # "idle" /\ req.path = "fast" /\ req.page >= 1 /\ req.limit > 0) =>
     \A i \in DOMAIN queryLog :
       IF Blank(req.filter)
       THEN /\ queryLog[i].sql \in
                 {"rawQueryWithoutFilter", "rawCountQueryWithoutFilter"}
            /\ queryLog[i].params = <<>>
       ELSE queryLog[i].sql \in
                 {"rawQueryUsingFilter", "rawCountQueryUsingFilter"}

(* C9: a search called with a page or a page size that is not positive is
   rejected with InvalidPageParameters before a query is sent, and returns
   no PagedResult.  The code does not look at either. *)
C9_PageParametersRejected ==
  (pc # "idle" /\ ~UnknownField /\ ~UnknownOrder /\
   (req.page < 1 \/ req.limit < 1)) =>
     /\ queryLog = <<>>
     /\ result = NoResult
     /\ pc = "failed" /\ error = "InvalidPageParameters"

----------------------------------------------------------------------------
(* C10: a search is all or nothing: a PagedResult is returned only when every
   query of the call resolved (both queries of getAllBooks), a call one of
   whose queries was rejected ends with the error and no PagedResult, and no
   query is sent twice. *)
C10_AllOrNothing ==
  /\ result # NoResult =>
       /\ Returned /\ error = NoError
       /\ Len(queryLog) = (IF req.path = "fast" THEN 2 ELSE 1)
       /\ \A i \in DOMAIN queryLog : queryLog[i].status = "resolved"
  /\ (\E i \in DOMAIN queryLog : queryLog[i].status = "rejected") =>
       /\ pc = "failed" /\ error = "QueryFailedError" /\ result = NoResult
       /\ queryLog[Len(queryLog)].status = "rejected"
  /\ \A i, j \in DOMAIN queryLog : i # j => queryLog[i].sql # queryLog[j].sql

\* the count query is rejected after the page query brought rows
C10_Witness ==
  /\ pc = "failed" /\ error = "QueryFailedError"
  /\ Len(queryLog) = 2 /\ queryLog[1].status = "resolved"
  /\ queryLog[2].status = "rejected"
  /\ resultBooks # <<>>
  /\ result = NoResult

====
